---- MODULE Spec2Model ----
(***************************************************************************)
(* A model of the media packetizer (BaseMediaPacketizer), of the codec     *)
(* normalisation (normalizeVideoCodec) and of the start of a livestream    *)
(* (streamLivestreamVideo).                                                *)
(*                                                                         *)
(* JavaScript numbers are doubles, exact on the integers below 2^53.  The  *)
(* counters of the packetizer run to 2^32 and the clock to about 2^42,     *)
(* which is past the integers of the model checker, so a number is kept    *)
(* as two limbs: [hi, lo] stands for hi * 2^16 + lo with lo < 2^16.  All   *)
(* arithmetic below is exact on that representation.                       *)
(***************************************************************************)
EXTENDS Integers, Sequences, FiniteSets, TLC

(***************************************************************************)
(* Numbers                                                                 *)
(***************************************************************************)
max_int16bit == 65536

Num(h, l) == [hi |-> h, lo |-> l]

max_int32bit == Num(max_int16bit, 0)

Zero == Num(0, 0)

One == Num(0, 1)

\* a + b
Plus(a, b) ==
    LET s == a.lo + b.lo
    IN  Num(a.hi + b.hi + (s \div max_int16bit), s % max_int16bit)

\* a > b
Gt(a, b) == a.hi > b.hi \/ (a.hi = b.hi /\ a.lo > b.lo)

\* a - b for a >= b
Minus(a, b) ==
    IF a.lo >= b.lo THEN Num(a.hi - b.hi, a.lo - b.lo)
    ELSE Num(a.hi - b.hi - 1, a.lo + max_int16bit - b.lo)

\* a % m, for m a multiple of 2^16 (max_int16bit is Num(1, 0))
Mod(a, m) == Num(a.hi % m.hi, a.lo)

\* Math.floor(a / d), for d a power of two up to 2^16
Floor(a, d) == a.hi * (max_int16bit \div d) + (a.lo \div d)

\* the unsigned 32-bit values
IsUInt32(a) == a.hi < max_int16bit

(***************************************************************************)
(* Buffers: a Buffer is a sequence of bytes.                               *)
(***************************************************************************)
Byte == 0 .. 255

\* Buffer.alloc(n)
alloc(n) == [k \in 1 .. n |-> 0]

\* buf.writeUIntBE(value, offset, 2): the two bytes written
BE16(v) == << (v \div 256) % 256, v % 256 >>

\* buf.writeUIntBE(value, offset, 4) and buf.writeUInt32BE(value, offset), for
\* an unsigned 32-bit value: the four bytes written
BE32(a) == BE16(a.hi) \o BE16(a.lo)

\* the number a big-endian field holds
ReadBE16(b) == b[1] * 256 + b[2]

ReadBE32(b) == Num(ReadBE16(SubSeq(b, 1, 2)), ReadBE16(SubSeq(b, 3, 4)))

\* x | 0b10000000 on a byte
Or128(x) == IF (x \div 128) % 2 = 1 THEN x ELSE x + 128

\* small integers to and from the two-limb form
ToNum(n) == Num(n \div max_int16bit, n % max_int16bit)

ToInt(a) == a.hi * max_int16bit + a.lo

(***************************************************************************)
(* The clock.  Date.now() is a whole number of milliseconds since 1970,    *)
(* negative before it; a field that was never assigned reads undefined,    *)
(* and arithmetic on undefined gives NaN.  A JavaScript number is kept as  *)
(* [nan, neg, mag]: NaN, or the sign and the magnitude.                    *)
(***************************************************************************)
JsNum(isNeg, m) == [nan |-> FALSE, neg |-> isNeg, mag |-> m]

NaN == [nan |-> TRUE, neg |-> FALSE, mag |-> Zero]

undefined == NaN

\* new Date("Jan 01 1900 GMT").getTime() = -2208988800000
ntpEpoch == JsNum(TRUE, Num(33706494, 9216))

\* x - y on JavaScript numbers
Sub(x, y) ==
    IF x.nan \/ y.nan THEN NaN
    ELSE IF x.neg # y.neg THEN JsNum(x.neg, Plus(x.mag, y.mag))
    ELSE IF Gt(y.mag, x.mag) THEN JsNum(~x.neg, Minus(y.mag, x.mag))
    ELSE JsNum(x.neg /\ x.mag # y.mag, Minus(x.mag, y.mag))

\* Math.floor(x): the numbers of this model are whole, and floor keeps NaN
MathFloor(x) == x

\* Math.round((x - Math.floor(x)) * max_int32bit): the fraction of a whole
\* number is 0, and 0 * 2^32 rounds to 0; NaN stays NaN
FractionWord(x) == IF x.nan THEN NaN ELSE JsNum(FALSE, Zero)

\* buf.writeUInt32BE(value, offset): Node checks value > 0xffffffff or
\* value < 0 and throws a RangeError (ERR_OUT_OF_RANGE); NaN passes both
\* comparisons and is stored as zero bytes.
writeUInt32BE(value) ==
    IF value.nan THEN [threw |-> FALSE, bytes |-> alloc(4)]
    ELSE IF (value.neg /\ value.mag # Zero) \/ ~IsUInt32(value.mag)
         THEN [threw |-> TRUE, bytes |-> <<>>]
    ELSE [threw |-> FALSE, bytes |-> BE32(value.mag)]

(***************************************************************************)
(* The connection (MediaUdp) and libsodium.  Their code is not part of     *)
(* the packetizer: getNewNonceBuffer hands out a 24-byte nonce whose first *)
(* four bytes are a counter the connection advances on every request;      *)
(* sendPacket either sends or fails, and a failure is thrown to the        *)
(* caller; crypto_secretbox_easy returns the ciphertext with its 16-byte   *)
(* tag, kept here as the box of (message, nonce, key).                     *)
(***************************************************************************)
secretkey == "secretkey"

crypto_secretbox_MACBYTES == 16

NonceBuffer(counter) == BE32(counter) \o alloc(20)

crypto_secretbox_easy(message, nonceBuffer, key) ==
    [m |-> message, n |-> nonceBuffer, k |-> key]

BoxLength(box) == Len(box.m) + crypto_secretbox_MACBYTES

NoBox == [m |-> <<>>, n |-> <<>>, k |-> ""]

\* a report as Buffer.concat leaves it: the parts in order
NoPacket == [header |-> <<>>, box |-> NoBox, tail |-> <<>>]

PacketLength(pkt) == Len(pkt.header) + BoxLength(pkt.box) + Len(pkt.tail)

(***************************************************************************)
(* State                                                                   *)
(***************************************************************************)
VARIABLES
    \* BaseMediaPacketizer, one per stream; both use one connection
    payloadType, extensionEnabled, sequence, timestamp, totalBytes,
    prevTotalPackets, lastPacketTime,
    \* the connection: the counter behind getNewNonceBuffer
    nonce,
    \* what the last call was, and what it returned or threw
    ret,
    \* bookkeeping of the run, read by the properties only
    calls,        \* sequence numbers taken since construction
    packets,      \* sequence numbers taken since Init
    headers,      \* headers built since construction
    pending,      \* packets since the last onFrameSent call
    frames,       \* onFrameSent calls since Init
    boundaries,   \* packets since Init whose count is a multiple of interval
    fired,        \* onFrameSent calls since Init whose interval test held
    reports,      \* reports since Init that sendPacket sent
    advances,     \* incrementTimestamp calls since Init
    encryptions,  \* the nonce of every encryption since Init, in order
    \* one streamLivestreamVideo call: what it created, and its promise
    stream

pkVars == << payloadType, extensionEnabled, sequence, timestamp, totalBytes,
             prevTotalPackets, lastPacketTime >>

histVars == << calls, packets, headers, pending, frames, boundaries, fired, reports, advances,
               encryptions >>

Packetizers == {"audio", "video"}

mtu == 1200

interval == 128

NoRet ==
    [op |-> "none", p |-> "none", threw |-> FALSE, cause |-> "",
     ssrc |-> Zero, isLastPacket |-> FALSE, bytesSent |-> Zero,
     value |-> 0, buffer |-> <<>>, packet |-> NoPacket, fired |-> FALSE,
     sent |-> FALSE, data |-> <<>>, chunks |-> <<>>, incrementBy |-> Zero]

(***************************************************************************)
(* BaseMediaPacketizer                                                     *)
(***************************************************************************)
\* a getNewSequence that forgets the modulo
NewSequence_NoWrap(seq) == Plus(seq, One)

\* getNewSequence: the counter after the call
NewSequence(seq) == Mod(Plus(seq, One), max_int32bit)

\* getNewSequence: the value returned, from the counter after the call
WireSequence(seq) == ToInt(Mod(seq, ToNum(max_int16bit)))

\* an incrementTimestamp that forgets the modulo
NewTimestamp_NoWrap(ts, incrementBy) == Plus(ts, incrementBy)

\* incrementTimestamp: the counter after the call
NewTimestamp(ts, incrementBy) == Mod(Plus(ts, incrementBy), max_int32bit)

\* makeRtpHeader: byte 0, version and flags
HeaderByte0(ext) == 2 * 64 + (IF ext THEN 1 ELSE 0) * 16

\* a makeRtpHeader that marks every packet
HeaderByte1_AlwaysMarked(pt, isLastPacket) == Or128(pt % 256)

\* makeRtpHeader: byte 1, the payload type stored in a byte, and the M bit
HeaderByte1(pt, isLastPacket) ==
    IF isLastPacket THEN Or128(pt % 256) ELSE pt % 256

\* a makeRtpHeader that writes the ssrc at offset 4 and the timestamp at 8
RtpHeader_FieldsSwapped(pt, ext, wireSeq, ts, ssrc, isLastPacket) ==
    << HeaderByte0(ext), HeaderByte1(pt, isLastPacket) >>
        \o BE16(wireSeq) \o BE32(ssrc) \o BE32(ts)

\* makeRtpHeader: the 12 bytes, given the sequence number it took
RtpHeader(pt, ext, wireSeq, ts, ssrc, isLastPacket) ==
    << HeaderByte0(ext), HeaderByte1(pt, isLastPacket) >>
        \o BE16(wireSeq) \o BE32(ts) \o BE32(ssrc)

\* the fields of a header
MarkerBit(h) == (h[2] \div 128) % 2

PayloadTypeBits(h) == h[2] % 128

VersionBits(h) == h[1] \div 64

ExtensionBit(h) == (h[1] \div 16) % 2

HeaderSequence(h) == ReadBE16(SubSeq(h, 3, 4))

HeaderTimestamp(h) == ReadBE32(SubSeq(h, 5, 8))

HeaderSsrc(h) == ReadBE32(SubSeq(h, 9, 12))

\* makeRtcpSenderReport, lines 103-111: the plaintext header
RtcpHeader(ssrc) == << 128, 200, 0, 6 >> \o BE32(ssrc)

\* makeRtcpSenderReport, lines 117-119: the two NTP words
NtpTimestamp(lastTime) == Sub(lastTime, ntpEpoch)

NtpTimestampMsw(lastTime) == MathFloor(NtpTimestamp(lastTime))

NtpTimestampLsw(lastTime) == FractionWord(NtpTimestamp(lastTime))

\* a makeRtcpSenderReport that writes the byte count where the packet count
\* belongs, and the packet count where the byte count belongs
SenderInfo_CountsSwapped(lastTime, ts, seq, tb) ==
    LET msw == writeUInt32BE(NtpTimestampMsw(lastTime))
        lsw == writeUInt32BE(NtpTimestampLsw(lastTime))
    IN  IF msw.threw \/ lsw.threw THEN [threw |-> TRUE, bytes |-> <<>>]
        ELSE [threw |-> FALSE,
              bytes |-> msw.bytes \o lsw.bytes \o BE32(ts) \o BE32(tb)
                            \o BE32(seq)]

\* makeRtcpSenderReport, lines 121-125: the five field writes in order; the
\* first that throws ends the call
SenderInfo(lastTime, ts, seq, tb) ==
    LET msw == writeUInt32BE(NtpTimestampMsw(lastTime))
        lsw == writeUInt32BE(NtpTimestampLsw(lastTime))
    IN  IF msw.threw \/ lsw.threw THEN [threw |-> TRUE, bytes |-> <<>>]
        ELSE [threw |-> FALSE,
              bytes |-> msw.bytes \o lsw.bytes \o BE32(ts) \o BE32(seq)
                            \o BE32(tb)]

\* makeRtcpSenderReport, lines 127-132: the packet, from the sender-info and
\* the nonce just taken from the connection
RtcpPacket(ssrc, info, nonceBuffer) ==
    [header |-> RtcpHeader(ssrc),
     box |-> crypto_secretbox_easy(info, nonceBuffer, secretkey),
     tail |-> SubSeq(nonceBuffer, 1, 4)]

\* the sender-info a receiver holding the key reads from a report
OpenedInfo(pkt) == pkt.box.m

InfoTimestamp(info) == ReadBE32(SubSeq(info, 9, 12))

InfoPacketCount(info) == ReadBE32(SubSeq(info, 13, 16))

InfoByteCount(info) == ReadBE32(SubSeq(info, 17, 20))

\* onFrameSent, lines 39-42: the packet count the interval test uses
EffectivePacketCount(seq, prev) ==
    IF Gt(prev, seq) THEN Plus(seq, max_int32bit) ELSE seq

\* an interval test without the compensation of the wrap
IntervalCrossed_NoCompensation(seq, prev) ==
    Floor(seq, interval) - Floor(prev, interval) > 0

\* onFrameSent, line 50: the interval test
IntervalCrossed(seq, prev) ==
    Floor(EffectivePacketCount(seq, prev), interval) - Floor(prev, interval) > 0

\* an onFrameSent that forgets the modulo of the byte counter
NewTotalBytes_NoWrap(tb, bytesSent) == Plus(tb, bytesSent)

\* onFrameSent, line 37: the byte counter after the call
NewTotalBytes(tb, bytesSent) == Mod(Plus(tb, bytesSent), max_int32bit)

\* an onFrameSent that remembers the count the interval test used, 2^32
\* added after a wrap
LastReported_WrapAdjusted(seq, prev) == EffectivePacketCount(seq, prev)

\* onFrameSent, line 54: the count remembered when a report has been sent
LastReported(seq, prev) == seq

\* getNewNonceBuffer of the connection: the counter after the request
NewNonce(n) == Plus(n, One)

\* sendPacket of the connection: it sends (TRUE), or fails and throws (FALSE)
SendOutcomes == BOOLEAN

\* a makeRtcpSenderReport that encrypts with the nonce the connection handed
\* out last instead of requesting one
SenderReport_ReusesNonce(ssrc, lastTime, ts, seq, tb, n) ==
    LET info == SenderInfo(lastTime, ts, seq, tb)
    IN  IF info.threw
        THEN [threw |-> TRUE, packet |-> NoPacket, nonce |-> n]
        ELSE [threw |-> FALSE,
              packet |-> RtcpPacket(ssrc, info.bytes, NonceBuffer(n)),
              nonce |-> n]

\* makeRtcpSenderReport: what it returns or throws, and the connection's
\* counter after it.  The field writes come before the nonce is requested, so
\* a call that throws on a field write has not taken a nonce.
SenderReport(ssrc, lastTime, ts, seq, tb, n) ==
    LET info == SenderInfo(lastTime, ts, seq, tb)
    IN  IF info.threw
        THEN [threw |-> TRUE, packet |-> NoPacket, nonce |-> n]
        ELSE [threw |-> FALSE,
              packet |-> RtcpPacket(ssrc, info.bytes, NonceBuffer(NewNonce(n))),
              nonce |-> NewNonce(n)]

\* a getNewSequence whose counter is one for all the instances
TakeSequence_SharedCounter(p) ==
    /\ sequence' = [q \in Packetizers |-> NewSequence(sequence[q])]
    /\ calls' = [calls EXCEPT ![p] = Plus(@, One)]
    /\ packets' = [packets EXCEPT ![p] = @ + 1]
    /\ pending' = [pending EXCEPT ![p] = @ + 1]
    /\ boundaries' = [boundaries EXCEPT
                        ![p] = @ + (IF calls'[p].lo % interval = 0 THEN 1 ELSE 0)]

\* the part of getNewSequence that changes the state
TakeSequence(p) ==
    /\ sequence' = [sequence EXCEPT ![p] = NewSequence(@)]
    /\ calls' = [calls EXCEPT ![p] = Plus(@, One)]
    /\ packets' = [packets EXCEPT ![p] = @ + 1]
    /\ pending' = [pending EXCEPT ![p] = @ + 1]
    /\ boundaries' = [boundaries EXCEPT
                        ![p] = @ + (IF calls'[p].lo % interval = 0 THEN 1 ELSE 0)]

\* getNewSequence called n times in a row: the counter after the last call
SequenceAfter(seq, n) == Mod(Plus(seq, n), max_int32bit)

\* a burst of n data packets, each of which takes one sequence number; ret is
\* what the last getNewSequence call returned.  The burst is counted in
\* calls and pending, not packet by packet in packets and boundaries.
sendBurstFields(p, n) ==
    /\ sequence' = [sequence EXCEPT ![p] = SequenceAfter(@, n)]
    /\ ret' = [NoRet EXCEPT !.op = "getNewSequence", !.p = p,
                            !.value = WireSequence(sequence'[p])]
    /\ UNCHANGED << stream, payloadType, extensionEnabled, timestamp, totalBytes,
                    prevTotalPackets, lastPacketTime, nonce >>

sendBurst(p, n) ==
    /\ sendBurstFields(p, n)
    /\ calls' = [calls EXCEPT ![p] = Plus(@, n)]
    /\ pending' = [pending EXCEPT ![p] = @ + 1]
    /\ UNCHANGED << packets, headers, frames, boundaries, fired, reports,
                    advances, encryptions >>

sendFrame(p, now) ==
    /\ lastPacketTime' = [lastPacketTime EXCEPT ![p] = now]
    /\ ret' = [NoRet EXCEPT !.op = "sendFrame", !.p = p]
    /\ UNCHANGED << stream, payloadType, extensionEnabled, sequence, timestamp,
                    totalBytes, prevTotalPackets, nonce, histVars >>

getNewSequence(p) ==
    /\ TakeSequence(p)
    /\ ret' = [NoRet EXCEPT !.op = "getNewSequence", !.p = p,
                            !.value = WireSequence(sequence'[p])]
    /\ UNCHANGED << stream, payloadType, extensionEnabled, timestamp, totalBytes,
                    prevTotalPackets, lastPacketTime, nonce, headers, frames,
                    fired, reports, advances, encryptions >>

incrementTimestamp(p, incrementBy) ==
    /\ timestamp' = [timestamp EXCEPT ![p] = NewTimestamp(@, incrementBy)]
    /\ advances' = [advances EXCEPT ![p] = @ + 1]
    /\ ret' = [NoRet EXCEPT !.op = "incrementTimestamp", !.p = p,
                            !.incrementBy = incrementBy]
    /\ UNCHANGED << stream, payloadType, extensionEnabled, sequence, totalBytes,
                    prevTotalPackets, lastPacketTime, nonce, calls, packets,
                    headers, pending, frames, boundaries, fired, reports,
                    encryptions >>

makeRtpHeader(p, ssrc, isLastPacket) ==
    /\ TakeSequence(p)
    /\ headers' = [headers EXCEPT ![p] = Plus(@, One)]
    /\ ret' = [NoRet EXCEPT
                 !.op = "makeRtpHeader", !.p = p, !.ssrc = ssrc,
                 !.isLastPacket = isLastPacket,
                 !.buffer = RtpHeader(payloadType[p], extensionEnabled[p],
                                      WireSequence(sequence'[p]), timestamp[p],
                                      ssrc, isLastPacket)]
    /\ UNCHANGED << stream, payloadType, extensionEnabled, timestamp, totalBytes,
                    prevTotalPackets, lastPacketTime, nonce, frames, fired,
                    reports, advances, encryptions >>

makeRtcpSenderReport(p, ssrc) ==
    LET rep == SenderReport(ssrc, lastPacketTime[p], timestamp[p], sequence[p],
                            totalBytes[p], nonce)
    IN  /\ nonce' = rep.nonce
        /\ encryptions' = IF rep.threw THEN encryptions
                          ELSE Append(encryptions, rep.packet.box.n)
        /\ ret' = [NoRet EXCEPT
                     !.op = "makeRtcpSenderReport", !.p = p, !.ssrc = ssrc,
                     !.threw = rep.threw,
                     !.cause = IF rep.threw THEN "RangeError" ELSE "",
                     !.packet = rep.packet]
        /\ UNCHANGED << stream, pkVars, calls, packets, headers, pending, frames,
                        boundaries, fired, reports, advances >>

\* encryptData, with a nonce its caller has just taken from the connection
encryptData(p, message) ==
    LET nonceBuffer == NonceBuffer(NewNonce(nonce))
        box == crypto_secretbox_easy(message, nonceBuffer, secretkey)
    IN  /\ nonce' = NewNonce(nonce)
        /\ encryptions' = Append(encryptions, box.n)
        /\ ret' = [NoRet EXCEPT !.op = "encryptData", !.p = p,
                                !.packet = [NoPacket EXCEPT !.box = box]]
        /\ UNCHANGED << stream, pkVars, calls, packets, headers, pending, frames,
                        boundaries, fired, reports, advances >>

\* onFrameSent: what one call computes, from the state it is called in
FrameSent(p, bytesSent, ssrc, sendOk) ==
    LET tb == NewTotalBytes(totalBytes[p], bytesSent)
        fire == IntervalCrossed(sequence[p], prevTotalPackets[p])
        rep == SenderReport(ssrc, lastPacketTime[p], timestamp[p], sequence[p],
                            tb, nonce)
        built == fire /\ ~rep.threw
        sent == built /\ sendOk
        call == [NoRet EXCEPT !.op = "onFrameSent", !.p = p, !.ssrc = ssrc,
                              !.bytesSent = bytesSent, !.fired = fire]
    IN  [tb |-> tb, fire |-> fire, rep |-> rep, built |-> built, sent |-> sent,
         ret |-> IF ~fire THEN call
                 ELSE IF rep.threw
                      THEN [call EXCEPT !.threw = TRUE, !.cause = "RangeError"]
                 ELSE IF ~sendOk
                      THEN [call EXCEPT !.threw = TRUE, !.cause = "sendPacket",
                                        !.packet = rep.packet]
                 ELSE [call EXCEPT !.sent = TRUE, !.packet = rep.packet]]

\* onFrameSent: the fields of the packetizer and the connection's counter
onFrameSentFields(p, bytesSent, ssrc, sendOk) ==
    LET call == FrameSent(p, bytesSent, ssrc, sendOk)
    IN  /\ totalBytes' = [totalBytes EXCEPT ![p] = call.tb]
        /\ nonce' = IF call.built THEN call.rep.nonce ELSE nonce
        /\ prevTotalPackets' = IF call.sent
                               THEN [prevTotalPackets EXCEPT
                                        ![p] = LastReported(sequence[p], @)]
                               ELSE prevTotalPackets
        /\ ret' = call.ret
        /\ UNCHANGED << stream, payloadType, extensionEnabled, sequence, timestamp,
                        lastPacketTime >>

onFrameSent(p, bytesSent, ssrc, sendOk) ==
    LET call == FrameSent(p, bytesSent, ssrc, sendOk)
    IN  /\ onFrameSentFields(p, bytesSent, ssrc, sendOk)
        /\ pending' = [pending EXCEPT ![p] = 0]
        /\ frames' = [frames EXCEPT ![p] = @ + 1]
        /\ fired' = [fired EXCEPT ![p] = @ + (IF call.fire THEN 1 ELSE 0)]
        /\ encryptions' = IF call.built
                          THEN Append(encryptions, call.rep.packet.box.n)
                          ELSE encryptions
        /\ reports' = [reports EXCEPT ![p] = @ + (IF call.sent THEN 1 ELSE 0)]
        /\ UNCHANGED << calls, packets, headers, boundaries, advances >>

\* data.slice(from, to) of a Buffer or an array: the elements at the
\* zero-based positions from .. to - 1
slice(data, from, to) == SubSeq(data, from + 1, to)

\* Math.min
MathMin(a, b) == IF a < b THEN a ELSE b

\* a partitionDataMTUSizedChunks whose chunks are one byte short of the mtu
ChunkSize_OneShort(len) == MathMin(len, mtu - 1)

\* partitionDataMTUSizedChunks, line 70: the size of the next chunk
ChunkSize(len) == MathMin(len, mtu)

\* partitionDataMTUSizedChunks, lines 69-74: the loop, from the values of i,
\* len and out at its head
RECURSIVE PartitionLoop(_, _, _, _)
PartitionLoop(data, i, len, out) ==
    IF len > 0
    THEN LET size == ChunkSize(len)
         IN  PartitionLoop(data, i + size, len - size,
                           Append(out, slice(data, i, i + size)))
    ELSE out

partitionDataMTUSizedChunks(p, data) ==
    /\ ret' = [NoRet EXCEPT !.op = "partitionDataMTUSizedChunks", !.p = p,
                            !.data = data,
                            !.chunks = PartitionLoop(data, 0, Len(data), <<>>)]
    /\ UNCHANGED << stream, pkVars, nonce, histVars >>

(***************************************************************************)
(* normalizeVideoCodec.  A string is the sequence of its characters.       *)
(***************************************************************************)
LowerCase == << "a", "b", "c", "d", "e", "f", "g", "h", "i", "j", "k", "l", "m",
                "n", "o", "p", "q", "r", "s", "t", "u", "v", "w", "x", "y", "z" >>

UpperCase == << "A", "B", "C", "D", "E", "F", "G", "H", "I", "J", "K", "L", "M",
                "N", "O", "P", "Q", "R", "S", "T", "U", "V", "W", "X", "Y", "Z" >>

\* String.prototype.toUpperCase, one character
UpperChar(c) ==
    IF \E k \in 1 .. 26 : LowerCase[k] = c
    THEN UpperCase[CHOOSE k \in 1 .. 26 : LowerCase[k] = c]
    ELSE c

toUpperCase(str) == [k \in 1 .. Len(str) |-> UpperChar(str[k])]

\* /word/i.test(str): word, given in upper case, occurs somewhere in str
\* whatever the case of its letters
TestI(word, str) ==
    \E at \in 0 .. Len(str) - Len(word) :
        \A k \in 1 .. Len(word) : UpperChar(str[at + k]) = word[k]

h264_mediacodec ==
    << "h", "2", "6", "4", "_", "m", "e", "d", "i", "a", "c", "o", "d", "e", "c" >>

hevc_mediacodec ==
    << "h", "e", "v", "c", "_", "m", "e", "d", "i", "a", "c", "o", "d", "e", "c" >>

H264 == << "H", "2", "6", "4" >>

H265 == << "H", "2", "6", "5" >>

VP8 == << "V", "P", "8" >>

VP9 == << "V", "P", "9" >>

AV1 == << "A", "V", "1" >>

normalizeVideoCodec(codec) ==
    IF codec = h264_mediacodec \/ codec = hevc_mediacodec
    THEN [threw |-> FALSE, value |-> codec]
    ELSE IF \/ TestI(H264, codec)
            \/ TestI(<< "H", ".", "2", "6", "4" >>, codec)
            \/ TestI(<< "A", "V", "C" >>, codec)
    THEN [threw |-> FALSE, value |-> H264]
    ELSE IF \/ TestI(H265, codec)
            \/ TestI(<< "H", ".", "2", "6", "5" >>, codec)
            \/ TestI(<< "H", "E", "V", "C" >>, codec)
    THEN [threw |-> FALSE, value |-> H265]
    ELSE IF TestI(VP8, codec) \/ TestI(VP9, codec)
    THEN [threw |-> FALSE, value |-> toUpperCase(codec)]
    ELSE IF TestI(AV1, codec)
    THEN [threw |-> FALSE, value |-> AV1]
    ELSE [threw |-> TRUE, value |-> codec]

(***************************************************************************)
(* streamLivestreamVideo: the executor of the PCancelable it returns.      *)
(* PCancelable (p-cancelable) wraps a native promise, which settles once:  *)
(* resolve and reject of a settled promise do nothing.  It keeps two flags *)
(* of its own: isPending, cleared by the resolve and reject it hands to    *)
(* the executor, and isCanceled, set by cancel().  An exception thrown by  *)
(* the executor rejects the native promise and leaves isPending set.       *)
(***************************************************************************)
NoCommand ==
    [built |-> FALSE, format |-> <<>>, params |-> "none", audioOutput |-> FALSE,
     inputOptions |-> {}, ran |-> FALSE, onCancel |-> FALSE, kills |-> <<>>]

NoStream ==
    [promise |-> "none", reason |-> "", videoStream |-> FALSE,
     videoOutput |-> "none", piped |-> FALSE, audioStream |-> FALSE,
     command |-> NoCommand, isPending |-> FALSE, isCanceled |-> FALSE,
     events |-> <<>>]

\* lines 20-34: the splitter of a normalized codec, "none" for the default
\* branch
VideoOutput(videoCodec) ==
    IF videoCodec = h264_mediacodec \/ videoCodec = H264 THEN "H264NalSplitter"
    ELSE IF videoCodec = hevc_mediacodec \/ videoCodec = H265 THEN "H265NalSplitter"
    ELSE IF videoCodec = VP8 THEN "IvfTransformer"
    ELSE "none"

\* lines 64-106: the video output of the command
VideoCommand(videoCodec) ==
    IF videoCodec = VP8
    THEN [NoCommand EXCEPT !.built = TRUE, !.format = << "i", "v", "f" >>,
                           !.params = "deadline"]
    ELSE IF videoCodec = H265
    THEN [NoCommand EXCEPT !.built = TRUE, !.format = << "h", "e", "v", "c" >>,
                           !.params = "x265"]
    ELSE [NoCommand EXCEPT !.built = TRUE, !.format = videoCodec,
                           !.params = "x264"]

\* lines 127-143: the input options
InputOptions(input, streamOpts) ==
    LET isHttpUrl == input.isString /\ input.startsWithHttp
        isHls == input.isString /\ input.includesM3u
    IN  (IF streamOpts.hardwareAcceleratedDecoding THEN {"-hwaccel"} ELSE {})
        \cup (IF streamOpts.readAtNativeFps THEN {"-re"} ELSE {})
        \cup (IF isHttpUrl THEN {"-headers"} ELSE {})
        \cup (IF isHttpUrl /\ ~isHls THEN {"-reconnect"} ELSE {})

\* thrown says where the ffmpeg library throws inside the try block, if it
\* does: "output" while the video output is added, "run" in command.run()
streamLivestreamVideo(input, streamOpts, includeAudio, thrown) ==
    /\ stream.promise = "none"
    /\ LET created == [NoStream EXCEPT !.videoStream = TRUE, !.isPending = TRUE]
           videoCodec == normalizeVideoCodec(streamOpts.videoCodec)
           videoOutput == VideoOutput(videoCodec.value)
           split == [created EXCEPT !.videoOutput = videoOutput]
           command == VideoCommand(videoCodec.value)
           piped == [split EXCEPT
                        !.piped = TRUE,
                        !.audioStream = includeAudio,
                        !.command = [command EXCEPT
                            !.audioOutput = includeAudio,
                            !.inputOptions = InputOptions(input, streamOpts)]]
       IN  stream' =
               IF videoCodec.threw
               THEN [created EXCEPT !.promise = "rejected",
                                    !.reason = "Unknown codec"]
               ELSE IF videoOutput = "none"
               THEN [created EXCEPT !.promise = "rejected",
                                    !.reason = "Codec not supported"]
               ELSE IF thrown = "output"
               THEN [split EXCEPT !.promise = "rejected",
                                  !.reason = "cannot play video",
                                  !.isPending = FALSE,
                                  !.command.built = TRUE]
               ELSE IF thrown = "run"
               THEN [piped EXCEPT !.promise = "rejected",
                                  !.isPending = FALSE,
                                  !.reason = "cannot play video"]
               ELSE [piped EXCEPT !.promise = "pending",
                                  !.command.ran = TRUE,
                                  !.command.onCancel = TRUE]
    /\ UNCHANGED << pkVars, nonce, ret, histVars >>

\* a native promise that can be settled again
Settle_Again(s, outcome, reason) ==
    [s EXCEPT !.promise = outcome, !.reason = reason]

\* resolve or reject of the native promise: the first one settles it
Settle(s, outcome, reason) ==
    IF s.promise = "pending"
    THEN [s EXCEPT !.promise = outcome, !.reason = reason]
    ELSE s

\* line 56-58: the command's 'end' event calls resolve("video ended"), which
\* PCancelable passes on unless the promise was cancelled
commandEnd ==
    /\ stream.command.ran
    /\ stream' =
           LET heard == [stream EXCEPT !.events = Append(@, "end")]
           IN  IF ~heard.isCanceled
               THEN Settle([heard EXCEPT !.isPending = FALSE],
                           "resolved", "video ended")
               ELSE heard
    /\ UNCHANGED << pkVars, nonce, ret, histVars >>

\* lines 59-61: the command's 'error' event calls reject
commandError ==
    /\ stream.command.ran
    /\ stream' = Settle([stream EXCEPT !.events = Append(@, "error"),
                                       !.isPending = FALSE],
                        "rejected", "cannot play video")
    /\ UNCHANGED << pkVars, nonce, ret, histVars >>

\* cancel() of the returned promise: nothing if it is not pending or already
\* cancelled; else the handler of line 146 kills the command and the promise
\* is rejected with a CancelError
cancel ==
    /\ stream.promise # "none"
    /\ stream' =
           LET heard == [stream EXCEPT !.events = Append(@, "cancel")]
           IN  IF ~heard.isPending \/ heard.isCanceled
               THEN heard
               ELSE Settle([heard EXCEPT
                               !.isCanceled = TRUE,
                               !.command.kills =
                                   IF heard.command.onCancel
                                   THEN Append(@, "SIGINT") ELSE @],
                           "rejected", "CancelError")
    /\ UNCHANGED << pkVars, nonce, ret, histVars >>

\* the VideoStream of a running command hands a frame to its packetizer,
\* which builds the header of one packet
streamFrame(ssrc, isLastPacket) ==
    /\ stream.promise = "pending"
    /\ stream.command.ran
    /\ stream.piped
    /\ makeRtpHeader("video", ssrc, isLastPacket)

(***************************************************************************)
(* Initial states.  A packetizer is constructed with its counters at zero. *)
(* The counters run to 2^32, so a run may also start from a packetizer     *)
(* that has been in use: start.calls sequence numbers were taken, and its  *)
(* last report, if any, was sent at packet count start.prev.  Every start  *)
(* used below is a state the calls of the class lead to.                   *)
(***************************************************************************)
Start(c, prev) == [calls |-> c, prev |-> prev]

InitState(pt, ext, start, n) ==
    /\ payloadType = pt
    /\ extensionEnabled = ext
    /\ sequence = [p \in Packetizers |-> Mod(start[p].calls, max_int32bit)]
    /\ timestamp = [p \in Packetizers |-> Zero]
    /\ totalBytes = [p \in Packetizers |-> Zero]
    /\ prevTotalPackets = [p \in Packetizers |-> start[p].prev]
    /\ lastPacketTime = [p \in Packetizers |-> undefined]
    /\ nonce = n
    /\ ret = NoRet
    /\ calls = [p \in Packetizers |-> start[p].calls]
    /\ headers = [p \in Packetizers |-> start[p].calls]
    /\ packets = [p \in Packetizers |-> 0]
    /\ pending = [p \in Packetizers |-> 0]
    /\ frames = [p \in Packetizers |-> 0]
    /\ boundaries = [p \in Packetizers |-> 0]
    /\ fired = [p \in Packetizers |-> 0]
    /\ reports = [p \in Packetizers |-> 0]
    /\ advances = [p \in Packetizers |-> 0]
    /\ encryptions = <<>>
    /\ stream = NoStream

\* ssrc values a caller passes: 12345, and the largest
Ssrcs == { Num(0, 12345), Num(65535, 65535) }

\* incrementBy values: the 48 kHz samples of an Opus frame, a 90 kHz video
\* frame at 30 fps, and one that wraps the counter
Increments == { Num(0, 960), Num(0, 3000), Num(65535, 65535) }

(***************************************************************************)
(* SpecHeader: one packetizer building headers.  It has taken 0, 2^16 - 2, *)
(* 2^32 - 2 or 2^32 + 2^16 - 2 sequence numbers, all through              *)
(* makeRtpHeader.                                                          *)
(***************************************************************************)
MaxHeaderPackets == 3

MaxAdvances == 2

\* H264 is 101 and Opus 120 in the codec table; 0, 127 and 255 are the ends
HeaderPayloadTypes == { 0, 101, 120, 127, 255 }

HeaderStarts ==
    { Zero, Num(0, 65534), Num(65535, 65534), Num(65536, 65534) }

InitHeader ==
    \E pt \in HeaderPayloadTypes, ext \in BOOLEAN, c \in HeaderStarts :
        InitState([audio |-> 120, video |-> pt],
                  [audio |-> FALSE, video |-> ext],
                  [audio |-> Start(Zero, Zero), video |-> Start(c, Zero)],
                  Zero)

NextHeader ==
    \/ /\ packets["video"] < MaxHeaderPackets
       /\ getNewSequence("video")
    \/ /\ packets["video"] < MaxHeaderPackets
       /\ \E ssrc \in Ssrcs, isLastPacket \in BOOLEAN :
              makeRtpHeader("video", ssrc, isLastPacket)
    \/ /\ advances["video"] < MaxAdvances
       /\ \E incrementBy \in Increments : incrementTimestamp("video", incrementBy)

vars == << pkVars, nonce, ret, histVars, stream >>

SpecHeader == InitHeader /\ [][NextHeader]_vars

(***************************************************************************)
(* SpecMarker: a packetizer constructed with any byte as its payload type  *)
(* builds its first headers.                                               *)
(***************************************************************************)
MaxMarkerPackets == 2

InitMarker ==
    \E pt \in Byte, ext \in BOOLEAN :
        InitState([audio |-> 120, video |-> pt],
                  [audio |-> FALSE, video |-> ext],
                  [audio |-> Start(Zero, Zero), video |-> Start(Zero, Zero)],
                  Zero)

NextMarker ==
    /\ packets["video"] < MaxMarkerPackets
    /\ \E isLastPacket \in BOOLEAN :
           makeRtpHeader("video", Num(0, 12345), isLastPacket)

SpecMarker == InitMarker /\ [][NextMarker]_vars

(***************************************************************************)
(* Properties of the sequence counter and of the header                    *)
(***************************************************************************)
\* C2: after n calls of getNewSequence on a fresh packetizer the sequence
\* counter is n mod 2^32, and the n-th call returned (n mod 2^32) mod 65536.
C2_SequenceIsCallsModulo ==
    \A p \in Packetizers :
        LET n == calls[p]
            nMod32 == Num(n.hi % 65536, n.lo)
        IN  /\ sequence[p] = nMod32
            /\ (ret.op = "getNewSequence" /\ ret.p = p) => ret.value = nMod32.lo

\* C2 witness: the 2^32-th call has wrapped the counter to 0 and returned 0.
C2_Witness_WrappedAt2Pow32 ==
    /\ ret.op = "getNewSequence"
    /\ calls["video"] = Num(65536, 0)
    /\ sequence["video"] = Zero
    /\ ret.value = 0

\* C3 as stated: for every payload type 0..255 the marker bit of a header is
\* set iff isLastPacket, and the low 7 bits of byte 1 are the payload type.
C3_MarkerIffLastForEveryByte ==
    ret.op = "makeRtpHeader" =>
        /\ (MarkerBit(ret.buffer) = 1) <=> ret.isLastPacket
        /\ PayloadTypeBits(ret.buffer) = payloadType[ret.p]

\* C3 amended: for a payload type 0..127 the marker bit is set iff
\* isLastPacket and the low 7 bits are the payload type; a payload type
\* 128..255 is stored unmasked, so the marker bit is set whatever
\* isLastPacket is and the low 7 bits are the payload type minus 128.
C3_MarkerIffLastBelow128 ==
    ret.op = "makeRtpHeader" =>
        IF payloadType[ret.p] < 128
        THEN /\ (MarkerBit(ret.buffer) = 1) <=> ret.isLastPacket
             /\ PayloadTypeBits(ret.buffer) = payloadType[ret.p]
        ELSE /\ MarkerBit(ret.buffer) = 1
             /\ PayloadTypeBits(ret.buffer) = payloadType[ret.p] - 128

\* C3 witness: a header of payload type 101 that does not end a frame has
\* its marker bit clear.
C3_Witness_UnmarkedHeader ==
    /\ ret.op = "makeRtpHeader"
    /\ payloadType[ret.p] = 101
    /\ ~ret.isLastPacket
    /\ MarkerBit(ret.buffer) = 0
    /\ PayloadTypeBits(ret.buffer) = 101

\* C4: a makeRtpHeader call takes exactly one sequence number: when every
\* sequence number was taken by makeRtpHeader the k-th header carries
\* k mod 65536; bytes 8-11 are the caller's ssrc and bytes 4-7 the timestamp
\* counter, which is 0 while incrementTimestamp was never called.
C4_HeaderCarriesSequenceSsrcTimestamp ==
    ret.op = "makeRtpHeader" =>
        LET p == ret.p
            h == ret.buffer
        IN  /\ Len(h) = 12
            /\ calls[p] = headers[p] => HeaderSequence(h) = headers[p].lo
            /\ SubSeq(h, 9, 12) = BE32(ret.ssrc)
            /\ HeaderTimestamp(h) = timestamp[p]
            /\ advances[p] = 0 => SubSeq(h, 5, 8) = << 0, 0, 0, 0 >>

\* C4 witness: the second header of a fresh packetizer, built with ssrc
\* 12345 and isLastPacket, carries sequence 2, the ssrc and timestamp 0.
C4_Witness_SecondHeader ==
    /\ ret.op = "makeRtpHeader"
    /\ headers["video"] = Num(0, 2)
    /\ calls["video"] = Num(0, 2)
    /\ payloadType["video"] = 101
    /\ ret.isLastPacket
    /\ HeaderSequence(ret.buffer) = 2
    /\ MarkerBit(ret.buffer) = 1
    /\ HeaderSsrc(ret.buffer) = Num(0, 12345)
    /\ HeaderTimestamp(ret.buffer) = Zero

(***************************************************************************)
(* The clock readings sendFrame records: 5 ms after the NTP epoch (a clock *)
(* set to 1900), the last and the first reading whose distance from the    *)
(* NTP epoch is below and at 2^32 ms, and 14 November 2023.                *)
(***************************************************************************)
ClockAt1900 == JsNum(TRUE, Num(33706494, 9211))

ClockBelow2Pow32 == JsNum(TRUE, Num(33640958, 9217))

ClockAt2Pow32 == JsNum(TRUE, Num(33640958, 9216))

ClockIn2023 == JsNum(FALSE, Num(25939941, 26624))

\* bytesSent values: one full chunk, and one that wraps the byte counter
ByteCounts == { Num(0, 1200), Num(65535, 65000) }

\* the ssrc each stream's caller passes
SsrcOf == [audio |-> Num(0, 12345), video |-> Num(65535, 65535)]

(***************************************************************************)
(* Spec: the methods of one packetizer called in any order.  It has taken  *)
(* interval - 1 sequence numbers and sent no report, or it has taken       *)
(* 2^16 - 1 or 2^32 - 1 and sent its last report at the multiple of        *)
(* interval before that (through a nonce of the connection).               *)
(***************************************************************************)
MaxPackets == 2

MaxFrames == 2

MaxEncryptions == 2

Clock == { ClockAt1900, ClockBelow2Pow32, ClockAt2Pow32, ClockIn2023 }

Starts ==
    { [start |-> Start(Num(0, 127), Zero), nonce |-> Zero],
      [start |-> Start(Num(0, 65535), Num(0, 65408)), nonce |-> One],
      [start |-> Start(Num(65535, 65535), Num(65535, 65408)), nonce |-> One] }

Init ==
    \E s \in Starts :
        InitState([audio |-> 120, video |-> 101],
                  [audio |-> FALSE, video |-> TRUE],
                  [audio |-> Start(Zero, Zero), video |-> s.start],
                  s.nonce)

Next ==
    \E p \in {"video"} :
        \/ \E now \in Clock : sendFrame(p, now)
        \/ /\ packets[p] < MaxPackets
           /\ \E isLastPacket \in BOOLEAN : makeRtpHeader(p, SsrcOf[p], isLastPacket)
        \/ /\ advances[p] < 1
           /\ incrementTimestamp(p, Num(0, 3000))
        \/ /\ frames[p] < MaxFrames
           /\ Len(encryptions) < MaxEncryptions
           /\ \E bytesSent \in ByteCounts, sendOk \in SendOutcomes :
                  onFrameSent(p, bytesSent, SsrcOf[p], sendOk)
        \/ /\ Len(encryptions) < MaxEncryptions
           /\ makeRtcpSenderReport(p, SsrcOf[p])

Spec == Init /\ [][Next]_vars

(***************************************************************************)
(* SpecPerPacket: onFrameSent is called after every data packet.  Under    *)
(* that cadence the last report was sent at the last multiple of interval, *)
(* one report (and one nonce) per multiple.  The packetizer has sent 120   *)
(* packets, or 2^32 - 10; the run sends up to MaxCadencePackets more, a    *)
(* frame of one packet at a time: sendFrame records the clock, the header  *)
(* is built, the packet is sent, onFrameSent is called.  sendPacket sends. *)
(***************************************************************************)
MaxCadencePackets == 30

CadenceStarts ==
    { [start |-> Start(Num(0, 120), Zero), nonce |-> Zero],
      [start |-> Start(Num(65535, 65526), Num(65535, 65408)),
       nonce |-> Num(511, 65535)] }

InitPerPacket ==
    \E s \in CadenceStarts :
        InitState([audio |-> 120, video |-> 101],
                  [audio |-> FALSE, video |-> TRUE],
                  [audio |-> Start(Zero, Zero), video |-> s.start],
                  s.nonce)

NextPerPacket ==
    \/ /\ pending["video"] = 0
       /\ \E now \in Clock : sendFrame("video", now)
    \/ /\ pending["video"] = 0
       /\ packets["video"] < MaxCadencePackets
       /\ makeRtpHeader("video", SsrcOf["video"], TRUE)
    \/ /\ pending["video"] = 1
       /\ onFrameSent("video", Num(0, 1200), SsrcOf["video"], TRUE)

SpecPerPacket == InitPerPacket /\ [][NextPerPacket]_vars

\* the same cadence while nothing throws: sendFrame of the base class is not
\* called, so no send time is recorded
NextPerPacketQuiet ==
    \/ /\ pending["video"] = 0
       /\ packets["video"] < MaxCadencePackets
       /\ makeRtpHeader("video", SsrcOf["video"], TRUE)
    \/ /\ pending["video"] = 1
       /\ onFrameSent("video", Num(0, 1200), SsrcOf["video"], TRUE)

SpecPerPacketQuiet == InitPerPacket /\ [][NextPerPacketQuiet]_vars

\* C1: with onFrameSent called after every data packet, the scheduler fires
\* once per multiple of interval and one report is sent for it, no more and
\* no fewer, also across the wrap of the sequence counter: over the packet
\* counts 2^32 - 10 .. 2^32 + 20 exactly one report is sent.
C1_OneReportPerBoundary ==
    pending["video"] = 0 =>
        /\ fired["video"] = boundaries["video"]
        /\ reports["video"] = boundaries["video"]
        /\ calls["video"] = Num(65536, 20) => reports["video"] = 1

\* C1, while nothing throws: the run that started at 2^32 - 10 has sent its
\* one report at 2^32, where the counter wrapped to 0.
C1_Quiet_ReportAtWrap ==
    /\ calls["video"] = Num(65536, 20)
    /\ pending["video"] = 0
    /\ reports["video"] = 1
    /\ fired["video"] = 1
    /\ prevTotalPackets["video"] = Zero

(***************************************************************************)
(* SpecShared: two packetizers on one connection, their calls interleaved. *)
(* Each has taken interval - 1 sequence numbers and sent no report; a data *)
(* packet's payload is encrypted with a nonce its caller takes from the    *)
(* connection.  Each records at most one send time.                        *)
(***************************************************************************)
MaxSharedPackets == 1

MaxSharedFrames == 1

MaxSharedEncryptions == 3

InitShared ==
    InitState([audio |-> 120, video |-> 101],
              [audio |-> FALSE, video |-> TRUE],
              [audio |-> Start(Num(0, 127), Zero),
               video |-> Start(Num(0, 127), Zero)],
              Zero)

NextShared ==
    \E p \in Packetizers :
        \/ /\ lastPacketTime[p] = undefined
           /\ \E now \in {ClockAt1900, ClockIn2023} : sendFrame(p, now)
        \/ /\ packets[p] < MaxSharedPackets
           /\ makeRtpHeader(p, SsrcOf[p], TRUE)
        \/ /\ Len(encryptions) < MaxSharedEncryptions
           /\ encryptData(p, << 1, 2, 3 >>)
        \/ /\ frames[p] < MaxSharedFrames
           /\ Len(encryptions) < MaxSharedEncryptions
           /\ \E sendOk \in SendOutcomes :
                  onFrameSent(p, Num(0, 1200), SsrcOf[p], sendOk)
        \/ /\ Len(encryptions) < MaxSharedEncryptions
           /\ makeRtcpSenderReport(p, SsrcOf[p])

SpecShared == InitShared /\ [][NextShared]_vars

(***************************************************************************)
(* SpecChunk: one call of partitionDataMTUSizedChunks, on a payload of any *)
(* length up to MaxPayloadLength whose elements are all different.         *)
(***************************************************************************)
MaxPayloadLength == 2500

Payload(n) == [k \in 1 .. n |-> k]

InitChunk ==
    InitState([audio |-> 120, video |-> 101],
              [audio |-> FALSE, video |-> TRUE],
              [audio |-> Start(Zero, Zero), video |-> Start(Zero, Zero)],
              Zero)

NextChunk ==
    /\ ret.op = "none"
    /\ \E n \in 0 .. MaxPayloadLength :
           partitionDataMTUSizedChunks("video", Payload(n))

SpecChunk == InitChunk /\ [][NextChunk]_vars

(***************************************************************************)
(* SpecStream: one streamLivestreamVideo call on any of the codec names,   *)
(* inputs and options below, and the packets of the stream it starts.      *)
(***************************************************************************)
MaxStreamPackets == 2

VideoCodecs ==
    { h264_mediacodec, hevc_mediacodec, H264, H265, VP8, VP9, AV1,
      << "h", "2", "6", "4" >>, << "H", ".", "2", "6", "4" >>,
      << "a", "v", "c", "1" >>, << "l", "i", "b", "x", "2", "6", "4" >>,
      << "h", "e", "v", "c" >>, << "h", ".", "2", "6", "5" >>,
      << "v", "p", "8" >>, << "v", "p", "9" >>, << "v", "p", "8", "0" >>,
      << "a", "v", "1" >>, << "m", "p", "e", "g", "4" >>, << >> }

StreamOptions ==
    [videoCodec : VideoCodecs, hardwareAcceleratedDecoding : BOOLEAN,
     readAtNativeFps : BOOLEAN]

\* a Readable, a file path, an http url, and an http url of a playlist
Inputs ==
    { [isString |-> FALSE, startsWithHttp |-> FALSE, includesM3u |-> FALSE],
      [isString |-> TRUE, startsWithHttp |-> FALSE, includesM3u |-> FALSE],
      [isString |-> TRUE, startsWithHttp |-> TRUE, includesM3u |-> FALSE],
      [isString |-> TRUE, startsWithHttp |-> TRUE, includesM3u |-> TRUE] }

Thrown == {"none", "output", "run"}

InitStream ==
    InitState([audio |-> 120, video |-> 101],
              [audio |-> FALSE, video |-> TRUE],
              [audio |-> Start(Zero, Zero), video |-> Start(Zero, Zero)],
              Zero)

NextStream ==
    \/ \E input \in Inputs, streamOpts \in StreamOptions,
          includeAudio \in BOOLEAN, thrown \in Thrown :
           streamLivestreamVideo(input, streamOpts, includeAudio, thrown)
    \/ \E isLastPacket \in BOOLEAN :
           /\ packets["video"] < MaxStreamPackets
           /\ streamFrame(SsrcOf["video"], isLastPacket)

SpecStream == InitStream /\ [][NextStream]_vars

(***************************************************************************)
(* Properties of the sender report                                         *)
(***************************************************************************)
\* C5: in every state, whatever the counters and the recorded send time,
\* makeRtcpSenderReport returns a packet of 48 bytes (8 of header, 36 of
\* ciphertext and tag, 4 of nonce) that starts 0x80 0xC8 0x00 0x06 and
\* continues with the ssrc in big-endian.
C5_ReportIs48Bytes ==
    ret.op = "makeRtcpSenderReport" =>
        /\ ~ret.threw
        /\ Len(ret.packet.header) = 8
        /\ BoxLength(ret.packet.box) = 36
        /\ Len(ret.packet.tail) = 4
        /\ PacketLength(ret.packet) = 48
        /\ SubSeq(ret.packet.header, 1, 4) = << 128, 200, 0, 6 >>
        /\ SubSeq(ret.packet.header, 5, 8) = BE32(ret.ssrc)

\* C6: a sender report that onFrameSent hands to sendPacket carries the raw
\* 32-bit sequence counter as its packet count, the timestamp counter, and
\* totalBytes with the bytesSent of that very call already added.
C6_ReportCarriesCounters ==
    (ret.op = "onFrameSent" /\ ret.packet # NoPacket) =>
        LET info == OpenedInfo(ret.packet)
        IN  /\ Len(info) = 20
            /\ SubSeq(info, 13, 16) = BE32(sequence[ret.p])
            /\ InfoPacketCount(info) = sequence[ret.p]
            /\ InfoTimestamp(info) = timestamp[ret.p]
            /\ InfoByteCount(info) = totalBytes[ret.p]

\* C6 witness: the report sent at packet 65536 carries 65536, not its low 16
\* bits, the advanced timestamp 3000 and the 1200 bytes of the call.
C6_Witness_ReportAt65536 ==
    /\ ret.op = "onFrameSent"
    /\ ret.sent
    /\ ret.bytesSent = Num(0, 1200)
    /\ frames[ret.p] = 1
    /\ InfoPacketCount(OpenedInfo(ret.packet)) = Num(1, 0)
    /\ InfoTimestamp(OpenedInfo(ret.packet)) = Num(0, 3000)
    /\ InfoByteCount(OpenedInfo(ret.packet)) = Num(0, 1200)

\* C8: when sendPacket fails in onFrameSent the failure reaches the caller,
\* and the packetizer is left as if the call had not happened or had fully
\* happened (totalBytes, the last-reported count and the nonce taken move
\* together or not at all); the next onFrameSent call does not attempt the
\* report of that boundary again.
C8_FailedSendLeavesNoPartialState ==
    [][ /\ (ret'.op = "onFrameSent" /\ ret'.cause = "sendPacket") =>
              LET p == ret'.p
                  untouched ==
                      /\ totalBytes'[p] = totalBytes[p]
                      /\ prevTotalPackets'[p] = prevTotalPackets[p]
                      /\ nonce' = nonce
                  complete ==
                      /\ totalBytes'[p] =
                             Mod(Plus(totalBytes[p], ret'.bytesSent), max_int32bit)
                      /\ prevTotalPackets'[p] = sequence[p]
                      /\ nonce' = NewNonce(nonce)
              IN  ret'.threw /\ (untouched \/ complete)
        /\ ( /\ ret.op = "onFrameSent" /\ ret.cause = "sendPacket"
             /\ ret'.op = "onFrameSent" /\ ret'.p = ret.p ) => ~ret'.fired
      ]_vars

RECURSIVE Concat(_)
Concat(list) == IF list = <<>> THEN <<>> ELSE Head(list) \o Concat(Tail(list))

\* C7: partitionDataMTUSizedChunks returns slices that concatenate to the
\* payload; every slice but the last is mtu long, the last is 1..mtu long;
\* an empty payload gives no slice.  The call returns: the number of slices
\* is the payload length divided by mtu, rounded up.
C7_ChunksPartitionThePayload ==
    ret.op = "partitionDataMTUSizedChunks" =>
        LET out == ret.chunks
            n == Len(ret.data)
        IN  /\ Concat(out) = ret.data
            /\ \A k \in 1 .. Len(out) - 1 : Len(out[k]) = 1200
            /\ Len(out) > 0 => Len(out[Len(out)]) \in 1 .. 1200
            /\ n = 0 => out = <<>>
            /\ Len(out) = (n + 1199) \div 1200

\* C7 witness: a payload of 2401 bytes is cut into 1200, 1200 and 1.
C7_Witness_ThreeChunks ==
    /\ ret.op = "partitionDataMTUSizedChunks"
    /\ Len(ret.data) = 2401
    /\ Len(ret.chunks) = 3
    /\ Len(ret.chunks[1]) = 1200
    /\ Len(ret.chunks[2]) = 1200
    /\ ret.chunks[3] = << 2401 >>

(***************************************************************************)
(* Properties of streamLivestreamVideo                                     *)
(***************************************************************************)
\* C9: when the call fails because the video codec is unsupported (unknown
\* to normalizeVideoCodec, or normalized to a codec without a splitter), no
\* ffmpeg command has been built or run, no packet has been constructed, and
\* no VideoStream, AudioStream or splitter has been created.
C9_UnsupportedCodecCreatesNothing ==
    (stream.promise = "rejected"
        /\ stream.reason \in {"Unknown codec", "Codec not supported"}) =>
        /\ ~stream.command.built
        /\ ~stream.command.ran
        /\ packets["video"] = 0
        /\ ~stream.videoStream
        /\ ~stream.audioStream
        /\ stream.videoOutput = "none"

(***************************************************************************)
(* SpecTimestamp: every method of one packetizer, called in any order.  It *)
(* has taken interval - 1 sequence numbers, so that the first onFrameSent  *)
(* after a packet sends a report; the timestamp is advanced up to          *)
(* MaxTimestampAdvances times, across its wrap.                            *)
(***************************************************************************)
MaxTimestampAdvances == 2

MaxTimestampPackets == 1

MaxTimestampFrames == 1

MaxTimestampEncryptions == 1

\* payload lengths: none, one chunk, two chunks
ChunkedLengths == { 0, 1200, 1201 }

InitTimestamp ==
    InitState([audio |-> 120, video |-> 101],
              [audio |-> FALSE, video |-> TRUE],
              [audio |-> Start(Zero, Zero), video |-> Start(Num(0, 127), Zero)],
              Zero)

NextTimestamp ==
    \E p \in {"video"} :
        \/ /\ advances[p] < MaxTimestampAdvances
           /\ \E incrementBy \in Increments : incrementTimestamp(p, incrementBy)
        \/ /\ packets[p] < MaxTimestampPackets
           /\ getNewSequence(p)
        \/ /\ packets[p] < MaxTimestampPackets
           /\ \E isLastPacket \in BOOLEAN : makeRtpHeader(p, SsrcOf[p], isLastPacket)
        \/ /\ lastPacketTime[p] = undefined
           /\ \E now \in {ClockAt1900, ClockIn2023} : sendFrame(p, now)
        \/ /\ frames[p] < MaxTimestampFrames
           /\ Len(encryptions) < MaxTimestampEncryptions
           /\ \E sendOk \in SendOutcomes :
                  onFrameSent(p, Num(0, 1200), SsrcOf[p], sendOk)
        \/ /\ Len(encryptions) < MaxTimestampEncryptions
           /\ makeRtcpSenderReport(p, SsrcOf[p])
        \/ /\ ret.op # "partitionDataMTUSizedChunks"
           /\ \E n \in ChunkedLengths : partitionDataMTUSizedChunks(p, Payload(n))

SpecTimestamp == InitTimestamp /\ [][NextTimestamp]_vars

\* C11: the timestamp counter changes only through incrementTimestamp, which
\* sets it to (timestamp + delta) mod 2^32; makeRtpHeader, getNewSequence,
\* onFrameSent, sendFrame, makeRtcpSenderReport and
\* partitionDataMTUSizedChunks leave it as it is.
C11_TimestampMovesOnlyByIncrement ==
    [][ /\ ret'.op = "incrementTimestamp" =>
              /\ timestamp'[ret'.p] =
                     Mod(Plus(timestamp[ret'.p], ret'.incrementBy), max_int32bit)
              /\ IsUInt32(timestamp'[ret'.p])
              /\ \A q \in Packetizers \ {ret'.p} : timestamp'[q] = timestamp[q]
        /\ ret'.op # "incrementTimestamp" => timestamp' = timestamp
      ]_vars

\* C11 witness: after advances of 2^32 - 1 and 3000 the counter has wrapped
\* to 2999, and the header built next carries 2999 while the counter stays.
C11_Witness_WrappedTimestampInHeader ==
    /\ ret.op = "makeRtpHeader"
    /\ advances["video"] = 2
    /\ timestamp["video"] = Num(0, 2999)
    /\ HeaderTimestamp(ret.buffer) = Num(0, 2999)

(***************************************************************************)
(* SpecIndependent: an audio and a video packetizer on one connection,     *)
(* their calls interleaved.  The audio one has taken interval - 1 sequence *)
(* numbers, the video one 100, so that only the audio one is due a report  *)
(* after its next packet.                                                  *)
(***************************************************************************)
MaxIndependentPackets == 1

MaxIndependentFrames == 1

MaxIndependentAdvances == 1

IncrementOf == [audio |-> Num(0, 960), video |-> Num(0, 3000)]

BytesOf == [audio |-> Num(0, 160), video |-> Num(0, 1200)]

InitIndependent ==
    InitState([audio |-> 120, video |-> 101],
              [audio |-> FALSE, video |-> TRUE],
              [audio |-> Start(Num(0, 127), Zero),
               video |-> Start(Num(0, 100), Zero)],
              Zero)

NextIndependent ==
    \E p \in Packetizers :
        \/ /\ lastPacketTime[p] = undefined
           /\ sendFrame(p, ClockAt1900)
        \/ /\ packets[p] < MaxIndependentPackets
           /\ getNewSequence(p)
        \/ /\ packets[p] < MaxIndependentPackets
           /\ makeRtpHeader(p, SsrcOf[p], TRUE)
        \/ /\ advances[p] < MaxIndependentAdvances
           /\ incrementTimestamp(p, IncrementOf[p])
        \/ /\ frames[p] < MaxIndependentFrames
           /\ \E sendOk \in SendOutcomes :
                  onFrameSent(p, BytesOf[p], SsrcOf[p], sendOk)

SpecIndependent == InitIndependent /\ [][NextIndependent]_vars

\* C12: an operation on one packetizer leaves the sequence, timestamp,
\* totalBytes and last-reported packet count of the other one on the same
\* connection unchanged, under every interleaving, and whether a packetizer's
\* onFrameSent fires depends on the packets that packetizer itself has sent.
C12_InstancesHaveIndependentCounters ==
    [][ \A p \in Packetizers :
            ret'.p = p =>
                /\ \A q \in Packetizers \ {p} :
                       /\ sequence'[q] = sequence[q]
                       /\ timestamp'[q] = timestamp[q]
                       /\ totalBytes'[q] = totalBytes[q]
                       /\ prevTotalPackets'[q] = prevTotalPackets[q]
                /\ sequence'[p] = calls'[p]
                /\ ret'.op = "onFrameSent" =>
                       (ret'.fired <=>
                            calls[p].lo \div 128 > prevTotalPackets[p].lo \div 128)
      ]_vars

\* C12 witness: both have sent one packet and both have been through
\* onFrameSent; the audio one has sent its report at 128, the video one, at
\* 101, has sent none, and each has its own timestamp and byte count.
C12_Witness_OnlyAudioReported ==
    /\ sequence = [audio |-> Num(0, 128), video |-> Num(0, 101)]
    /\ prevTotalPackets = [audio |-> Num(0, 128), video |-> Zero]
    /\ reports = [audio |-> 1, video |-> 0]
    /\ frames = [audio |-> 1, video |-> 1]
    /\ timestamp = [audio |-> Num(0, 960), video |-> Num(0, 3000)]
    /\ totalBytes = [audio |-> Num(0, 160), video |-> Num(0, 1200)]

(***************************************************************************)
(* Properties of the stream identity                                       *)
(***************************************************************************)
\* C13: the ssrc, the payload type and the extension flag of a packetizer
\* never change: any two headers one packetizer builds one after the other
\* carry the same ssrc, the same payload type and the same extension bit,
\* and no call changes the payload type or the extension flag.
C13_IdentityIsFixed ==
    [][ /\ payloadType' = payloadType
        /\ extensionEnabled' = extensionEnabled
        /\ ( /\ ret.op = "makeRtpHeader"
             /\ ret'.op = "makeRtpHeader"
             /\ ret'.p = ret.p ) =>
               /\ PayloadTypeBits(ret'.buffer) = PayloadTypeBits(ret.buffer)
               /\ ExtensionBit(ret'.buffer) = ExtensionBit(ret.buffer)
               /\ HeaderSsrc(ret'.buffer) = HeaderSsrc(ret.buffer)
      ]_vars

(***************************************************************************)
(* Properties of the report scheduler                                      *)
(***************************************************************************)
\* C14: the last-reported packet count changes only in an onFrameSent call
\* that fires and sends a report, and is then the raw sequence counter, a
\* value in 0 .. 2^32 - 1 (2^32 is not added after a wrap); an onFrameSent
\* call that does not fire, and every other operation, leaves it unchanged.
C14_LastReportedSetOnlyAtReport ==
    [][ /\ \A p \in Packetizers :
               /\ IsUInt32(prevTotalPackets'[p])
               /\ prevTotalPackets'[p] # prevTotalPackets[p] =>
                      /\ ret'.op = "onFrameSent"
                      /\ ret'.p = p
                      /\ ret'.fired
                      /\ ret'.sent
                      /\ prevTotalPackets'[p] = sequence[p]
        /\ (ret'.op = "onFrameSent" /\ ret'.fired /\ ~ret'.threw) =>
               /\ ret'.sent
               /\ prevTotalPackets'[ret'.p] = sequence'[ret'.p]
        /\ (ret'.op = "onFrameSent" /\ ~ret'.fired) =>
               prevTotalPackets' = prevTotalPackets
        /\ ret'.op # "onFrameSent" => prevTotalPackets' = prevTotalPackets
      ]_vars

\* C14 witness: the report sent at packet 2^32, where the sequence counter
\* wrapped to 0, leaves 0 as the last-reported count, not 2^32.
C14_Witness_ZeroAfterWrap ==
    /\ ret.op = "onFrameSent"
    /\ ret.sent
    /\ calls[ret.p] = Num(65536, 0)
    /\ sequence[ret.p] = Zero
    /\ prevTotalPackets[ret.p] = Zero

\* C16: every onFrameSent(b) call sets totalBytes to (totalBytes + b) mod
\* 2^32, whether it fires a report or not and whether it returns or throws,
\* so that after calls with b1 .. bk the counter is their sum mod 2^32; no
\* other operation changes totalBytes.
C16_TotalBytesIsSumModulo ==
    [][ /\ ret'.op = "onFrameSent" =>
              /\ totalBytes'[ret'.p] =
                     Mod(Plus(totalBytes[ret'.p], ret'.bytesSent), max_int32bit)
              /\ IsUInt32(totalBytes'[ret'.p])
              /\ \A q \in Packetizers \ {ret'.p} : totalBytes'[q] = totalBytes[q]
        /\ ret'.op # "onFrameSent" => totalBytes' = totalBytes
      ]_vars

\* C16 witness: two calls with 2^32 - 536 bytes each, the second of which
\* sent no report, leave 2^32 - 1072.
C16_Witness_WrappedByteCount ==
    /\ ret.op = "onFrameSent"
    /\ ~ret.fired
    /\ frames[ret.p] = 2
    /\ ret.bytesSent = Num(65535, 65000)
    /\ totalBytes[ret.p] = Num(65535, 64464)

(***************************************************************************)
(* SpecBurst: onFrameSent is called after bursts of packets.  The          *)
(* packetizer is new, or has taken interval - 1 sequence numbers and sent  *)
(* no report, or has taken 2^32 - 10 and sent its last report at           *)
(* 2^32 - 128.  A burst has 1 to 2^32 - 1 packets.                         *)
(***************************************************************************)
MaxBurstFrames == 2

BurstStarts ==
    { [start |-> Start(Zero, Zero), nonce |-> Zero],
      [start |-> Start(Num(0, 127), Zero), nonce |-> Zero],
      [start |-> Start(Num(65535, 65526), Num(65535, 65408)), nonce |-> One] }

\* 1, 127, 128, 300, 2^31, 2^32 - 128 and 2^32 - 1 packets
BurstSizes ==
    { One, Num(0, 127), Num(0, 128), Num(0, 300), Num(32768, 0),
      Num(65535, 65408), Num(65535, 65535) }

InitBurst ==
    \E s \in BurstStarts :
        InitState([audio |-> 120, video |-> 101],
                  [audio |-> FALSE, video |-> TRUE],
                  [audio |-> Start(Zero, Zero), video |-> s.start],
                  s.nonce)

NextBurst ==
    \/ /\ lastPacketTime["video"] = undefined
       /\ \E now \in {ClockAt1900, ClockIn2023} : sendFrame("video", now)
    \/ /\ pending["video"] = 0
       /\ frames["video"] < MaxBurstFrames
       /\ \E n \in BurstSizes : sendBurst("video", n)
    \/ /\ pending["video"] > 0
       /\ \E sendOk \in SendOutcomes :
              onFrameSent("video", Num(0, 1200), SsrcOf["video"], sendOk)

SpecBurst == InitBurst /\ [][NextBurst]_vars

\* C17: when onFrameSent returns normally, fewer than 2^32 packets having
\* been sent since the call before, the last-reported count is at most the
\* sequence counter and both are in the same interval of 128 packets, and
\* the call has sent at most one report, however many multiples of 128 the
\* burst crossed.
C17_NoCrossingLeftUnreported ==
    [][ (ret'.op = "onFrameSent" /\ ~ret'.threw) =>
            LET p == ret'.p
            IN  /\ ~Gt(prevTotalPackets'[p], sequence'[p])
                /\ Floor(sequence'[p], 128) = Floor(prevTotalPackets'[p], 128)
                /\ reports'[p] <= reports[p] + 1
                /\ Len(encryptions') <= Len(encryptions) + 1
                /\ ret'.fired <=> reports'[p] = reports[p] + 1
      ]_vars

\* C17 witness: a burst of 300 packets from 127 crosses 128, 256 and 384; the
\* call after it sends one report and leaves both counts at 427.
C17_Witness_OneReportForThreeCrossings ==
    /\ ret.op = "onFrameSent"
    /\ ret.sent
    /\ frames["video"] = 1
    /\ reports["video"] = 1
    /\ calls["video"] = Num(0, 427)
    /\ sequence["video"] = Num(0, 427)
    /\ prevTotalPackets["video"] = Num(0, 427)

(***************************************************************************)
(* Properties of the NTP timestamp                                         *)
(***************************************************************************)
\* C18: for every send time sendFrame has recorded, at or after the 1900
\* epoch, the two NTP words makeRtcpSenderReport computes lie in
\* 0 .. 2^32 - 1, so that writing them into their 32-bit fields does not
\* fail, and no sender report fails on a field write.
C18_NtpWordsFitTheirFields ==
    \A p \in Packetizers :
        LET lastTime == lastPacketTime[p]
            msw == NtpTimestampMsw(lastTime)
            lsw == NtpTimestampLsw(lastTime)
        IN  (lastTime # undefined /\ ~NtpTimestamp(lastTime).neg) =>
                /\ ~msw.neg /\ IsUInt32(msw.mag)
                /\ ~lsw.neg /\ IsUInt32(lsw.mag)
                /\ ~writeUInt32BE(msw).threw
                /\ ~writeUInt32BE(lsw).threw
                /\ ret.p = p => ret.cause # "RangeError"

(***************************************************************************)
(* SpecLive: a stream that never ends.  Frame after frame, sendFrame       *)
(* records the clock, a burst of packets takes sequence numbers and        *)
(* onFrameSent is called; sendPacket sends.  The clock does not run        *)
(* backwards and two frames are not sent in the same millisecond;          *)
(* ClockIn2023 stands for every later reading as well.  The bursts are     *)
(* multiples of 2^30 packets, which take the sequence counter round its    *)
(* wrap every few frames.  The bookkeeping of the run is not kept.         *)
(***************************************************************************)
\* x < y on JavaScript numbers that are not NaN
Lt(x, y) ==
    IF x.neg /\ ~y.neg THEN x.mag # Zero \/ y.mag # Zero
    ELSE IF x.neg /\ y.neg THEN Gt(x.mag, y.mag)
    ELSE IF ~x.neg /\ ~y.neg THEN Gt(y.mag, x.mag)
    ELSE FALSE

\* now can be the reading after last
ClockAdvances(last, now) ==
    \/ last = undefined
    \/ Lt(last, now)
    \/ (last = ClockIn2023 /\ now = ClockIn2023)

\* 2^30, 2^31 and 2^32 - 2^30 packets
LiveBursts == { Num(16384, 0), Num(32768, 0), Num(49152, 0) }

InitLive ==
    \E s \in BurstStarts :
        InitState([audio |-> 120, video |-> 101],
                  [audio |-> FALSE, video |-> TRUE],
                  [audio |-> Start(Zero, Zero), video |-> s.start],
                  s.nonce)

NextLive ==
    \/ /\ ret.op \in {"none", "onFrameSent"}
       /\ \E now \in Clock :
              /\ ClockAdvances(lastPacketTime["video"], now)
              /\ sendFrame("video", now)
    \/ /\ ret.op = "sendFrame"
       /\ \E n \in LiveBursts : sendBurstFields("video", n)
       /\ UNCHANGED histVars
    \/ /\ ret.op = "getNewSequence"
       /\ onFrameSentFields("video", Num(32768, 0), SsrcOf["video"], TRUE)
       /\ UNCHANGED histVars

SpecLive == InitLive /\ [][NextLive]_vars /\ WF_vars(NextLive)

\* C15: while packets keep being sent and onFrameSent keeps being called,
\* reporting never stops: after every report another one is eventually
\* sent, also after the sequence counter has wrapped.
C15_ReportingNeverStops ==
    []<>(ret.op = "onFrameSent" /\ ret.sent)

(***************************************************************************)
(* SpecEvents: one streamLivestreamVideo call and then, in any order, the  *)
(* command's 'end' and 'error' events and cancel requests.                 *)
(***************************************************************************)
MaxEvents == 3

EventCodecs == { H264, VP8, VP9 }

InitEvents ==
    InitState([audio |-> 120, video |-> 101],
              [audio |-> FALSE, video |-> TRUE],
              [audio |-> Start(Zero, Zero), video |-> Start(Zero, Zero)],
              Zero)

NextEvents ==
    \/ \E input \in Inputs, videoCodec \in EventCodecs,
          includeAudio \in BOOLEAN, thrown \in Thrown :
           streamLivestreamVideo(input,
               [videoCodec |-> videoCodec, hardwareAcceleratedDecoding |-> FALSE,
                readAtNativeFps |-> TRUE],
               includeAudio, thrown)
    \/ /\ Len(stream.events) < MaxEvents
       /\ \A k \in 1 .. Len(stream.events) : stream.events[k] # "end"
       /\ commandEnd
    \/ /\ Len(stream.events) < MaxEvents
       /\ \A k \in 1 .. Len(stream.events) : stream.events[k] # "error"
       /\ commandError
    \/ /\ Len(stream.events) < MaxEvents
       /\ cancel

SpecEvents == InitEvents /\ [][NextEvents]_vars

(***************************************************************************)
(* Properties of the returned promise                                      *)
(***************************************************************************)
\* C19 as stated: once the command has started, the promise is pending until
\* the first of 'end', 'error' and cancel, then has the outcome of that one
\* for ever, and every cancel request kills the command with SIGINT.
C19_FirstEventSettlesEveryCancelKills ==
    stream.command.ran =>
        /\ stream.events = <<>> <=> stream.promise = "pending"
        /\ stream.events # <<>> =>
               /\ stream.events[1] = "end" =>
                      /\ stream.promise = "resolved"
                      /\ stream.reason = "video ended"
               /\ stream.events[1] = "error" =>
                      /\ stream.promise = "rejected"
                      /\ stream.reason = "cannot play video"
               /\ stream.events[1] = "cancel" =>
                      /\ stream.promise = "rejected"
                      /\ stream.reason = "CancelError"
                      /\ stream.isCanceled
        /\ (\E k \in 1 .. Len(stream.events) : stream.events[k] = "cancel") =>
               stream.command.kills # <<>>
        /\ \A k \in 1 .. Len(stream.command.kills) :
               stream.command.kills[k] = "SIGINT"

\* C19, amended: the same, but the cancel request that kills the command is
\* the one made before any 'end' or 'error' event; it kills it once, with
\* SIGINT, and a cancel request made after the promise has settled does
\* nothing.
C19_FirstEventSettlesPendingCancelKills ==
    stream.command.ran =>
        /\ stream.events = <<>> <=> stream.promise = "pending"
        /\ stream.events # <<>> =>
               /\ stream.events[1] = "end" =>
                      /\ stream.promise = "resolved"
                      /\ stream.reason = "video ended"
                      /\ ~stream.isCanceled
               /\ stream.events[1] = "error" =>
                      /\ stream.promise = "rejected"
                      /\ stream.reason = "cannot play video"
                      /\ ~stream.isCanceled
               /\ stream.events[1] = "cancel" =>
                      /\ stream.promise = "rejected"
                      /\ stream.reason = "CancelError"
                      /\ stream.isCanceled
        /\ stream.command.kills =
               IF stream.events # <<>> /\ stream.events[1] = "cancel"
               THEN << "SIGINT" >> ELSE << >>

\* C19 witness: the command ended, then the error event came and the caller
\* cancelled: the promise is still resolved with "video ended" and nothing
\* was killed.
C19_Witness_EndThenErrorThenCancel ==
    /\ stream.command.ran
    /\ stream.events = << "end", "error", "cancel" >>
    /\ stream.promise = "resolved"
    /\ stream.reason = "video ended"
    /\ stream.command.kills = << >>

====
